---- MODULE Spec2Model ----
(***************************************************************************)
(* smolpuff: a vector store over an ordered key-value store (slatedb).     *)
(* Model of src/src/main.rs: VectorStore::add, VectorStore::query,         *)
(* ScoredItem's ordering, cosine_similarity, and the library pieces the    *)
(* query is built from (BinaryHeap, slice::sort_by, serde_json).           *)
(*                                                                         *)
(* f32 values are modelled in fixed point: the integer n stands for        *)
(* n / Scale.  Finite values have magnitude at most FMax; a result beyond  *)
(* FMax is an infinity, and NaN is a value of its own, as in IEEE 754.     *)
(***************************************************************************)
EXTENDS Integers, Sequences, FiniteSets, TLC

\* ------------------------------------------------------------------ bounds
Scale == 10
FMax == 300
MaxAdds == 3
MaxK == 2
MaxKeyLen == 5
MaxIdLen == 2
MaxWideK == 4

\* ------------------------------------------------------------- f32 values
PosInf == FMax + 1
NegInf == 0 - (FMax + 1)
NaN == FMax + 2
One == Scale
Huge == FMax

IsNaN(x) == x = NaN
IsInf(x) == x = PosInf \/ x = NegInf
IsFinite(x) == ~IsNaN(x) /\ ~IsInf(x)

\* IEEE comparisons: every comparison with a NaN operand is false.
FLt(a, b) == ~IsNaN(a) /\ ~IsNaN(b) /\ a < b
FGt(a, b) == FLt(b, a)
FGe(a, b) == ~IsNaN(a) /\ ~IsNaN(b) /\ a >= b

Sign(x) == IF x < 0 THEN 0 - 1 ELSE 1
Abs(x) == IF x < 0 THEN 0 - x ELSE x
\* integer division truncating toward zero
TruncDiv(a, b) == Sign(a) * Sign(b) * (Abs(a) \div Abs(b))
\* an exact result brought back into f32: overflow gives an infinity
Overflow(x) == IF x > FMax THEN PosInf ELSE IF x < 0 - FMax THEN NegInf ELSE x

FMul(a, b) ==
    IF IsNaN(a) \/ IsNaN(b) THEN NaN
    ELSE IF IsInf(a) \/ IsInf(b)
         THEN IF a = 0 \/ b = 0 THEN NaN
              ELSE IF Sign(a) * Sign(b) > 0 THEN PosInf ELSE NegInf
         ELSE Overflow(TruncDiv(a * b, Scale))

FAdd(a, b) ==
    IF IsNaN(a) \/ IsNaN(b) THEN NaN
    ELSE IF IsInf(a) /\ IsInf(b) THEN (IF a = b THEN a ELSE NaN)
    ELSE IF IsInf(a) THEN a
    ELSE IF IsInf(b) THEN b
    ELSE Overflow(a + b)

FDiv(a, b) ==
    IF IsNaN(a) \/ IsNaN(b) THEN NaN
    ELSE IF IsInf(a) /\ IsInf(b) THEN NaN
    ELSE IF IsInf(b) THEN 0
    ELSE IF IsInf(a) THEN (IF Sign(a) * Sign(b) > 0 THEN PosInf ELSE NegInf)
    ELSE IF b = 0 THEN (IF a = 0 THEN NaN ELSE IF a > 0 THEN PosInf ELSE NegInf)
    ELSE Overflow(TruncDiv(a * Scale, b))

RECURSIVE ISqrtFrom(_, _)
ISqrtFrom(n, r) == IF (r + 1) * (r + 1) > n THEN r ELSE ISqrtFrom(n, r + 1)

FSqrt(a) ==
    IF IsNaN(a) \/ a < 0 THEN NaN
    ELSE IF a = PosInf THEN PosInf
    ELSE ISqrtFrom(a * Scale, 0)

\* ------------------------------------------------------ cosine_similarity
\* a.iter().zip(b.iter()).map(|(x, y)| x * y).sum(): a left fold from 0.0
RECURSIVE DotFrom(_, _, _)
DotFrom(a, b, acc) ==
    IF a = <<>> \/ b = <<>> THEN acc
    ELSE DotFrom(Tail(a), Tail(b), FAdd(acc, FMul(Head(a), Head(b))))

dot_product(a, b) == DotFrom(a, b, 0)
magnitude(a) == FSqrt(DotFrom(a, a, 0))

cosine_similarity(a, b) ==
    IF Len(a) # Len(b) \/ a = <<>> THEN 0
    ELSE IF magnitude(a) = 0 \/ magnitude(b) = 0 THEN 0
    ELSE FDiv(dot_product(a, b), FMul(magnitude(a), magnitude(b)))

\* ------------------------------------------------------------ byte strings
\* bytes of "vec:" and "vec;" (';' is ':' + 1 in ASCII)
ByteV == 118
ByteE == 101
ByteC == 99
Colon == 58
Semicolon == 59
ByteA == 97
ByteD == 100
ByteMax == 255

VecPrefix == <<ByteV, ByteE, ByteC, Colon>>
ScanRangeStart == VecPrefix
\* "ved": the letter before the colon incremented instead of the colon
ScanRangeEnd_WrongByte == <<ByteV, ByteE, ByteD>>
ScanRangeEnd == <<ByteV, ByteE, ByteC, Semicolon>>

\* lexicographic order on byte strings, the key order of the store
RECURSIVE BytesLess(_, _)
BytesLess(a, b) ==
    IF b = <<>> THEN FALSE
    ELSE IF a = <<>> THEN TRUE
    ELSE IF Head(a) # Head(b) THEN Head(a) < Head(b)
    ELSE BytesLess(Tail(a), Tail(b))

\* the half-open range "vec:".."vec;" handed to scan
InScanRange(key) == ~BytesLess(key, ScanRangeStart) /\ BytesLess(key, ScanRangeEnd)

HasPrefix(key, prefix) ==
    Len(key) >= Len(prefix) /\ SubSeq(key, 1, Len(prefix)) = prefix

\* format!("vec:{}", id)
AddKey(id) == VecPrefix \o id

\* ------------------------------------------------- records and their JSON
\* Option<serde_json::Value>: None is <<>>, Some(v) is <<v>>; the JSON
\* values used are null and one document.
JsonNull == "null"
JsonDoc == "doc"
None == <<>>
Some(v) == <<v>>
\* null inside an array of numbers
JsonNullNum == FMax + 3

VectorRecord(id, vector, metadata) ==
    [id |-> id, vector |-> vector, metadata |-> metadata]

\* serde_json::to_vec: a non-finite float is written as null, None is
\* written as null, Some(v) is written as v.
to_vec(record) ==
    [id |-> record.id,
     vector |-> [i \in 1..Len(record.vector) |->
                    IF IsFinite(record.vector[i]) THEN record.vector[i]
                    ELSE JsonNullNum],
     metadata |-> IF record.metadata = None THEN JsonNull
                  ELSE record.metadata[1]]

\* serde_json::from_slice::<VectorRecord>: null is not an f32 (an error);
\* null read as Option<Value> is None.
Decodable(value) ==
    \A i \in 1..Len(value.vector) : value.vector[i] # JsonNullNum

from_slice(value) ==
    [id |-> value.id,
     vector |-> value.vector,
     metadata |-> IF value.metadata = JsonNull THEN None
                  ELSE Some(value.metadata)]

\* ------------------------------------------------------ the ordered store
EmptyDb == [key \in {} |-> 0]

\* Db::put: insert or overwrite
Put(store, key, value) ==
    [x \in (DOMAIN store) \cup {key} |-> IF x = key THEN value ELSE store[x]]

RECURSIVE SortedKeys(_)
SortedKeys(S) ==
    IF S = {} THEN <<>>
    ELSE LET m == CHOOSE x \in S : \A y \in S \ {x} : BytesLess(x, y)
         IN  <<m>> \o SortedKeys(S \ {m})

\* Db::scan(range): the key-value pairs of the range, in key order
ScanItems(store) ==
    LET keys == SortedKeys({key \in DOMAIN store : InScanRange(key)})
    IN  [i \in 1..Len(keys) |-> [key |-> keys[i], value |-> store[keys[i]]]]

\* --------------------------------------------------- ScoredItem and heap
ScoredItem(score, id, metadata) ==
    [score |-> score, id |-> id, metadata |-> metadata]

\* Ord for ScoredItem: other.score.partial_cmp(&self.score)
\*                          .unwrap_or(Ordering::Equal)
cmp(self, other) ==
    IF FLt(other.score, self.score) THEN "Less"
    ELSE IF FGt(other.score, self.score) THEN "Greater"
    ELSE "Equal"

\* self <= other, from partial_cmp = Some(cmp)
Le(self, other) == cmp(self, other) # "Greater"

Swap(data, i, j) ==
    [x \in 1..Len(data) |->
        IF x = i THEN data[j] ELSE IF x = j THEN data[i] ELSE data[x]]

\* BinaryHeap::sift_up(start, pos), positions counted from 1
RECURSIVE sift_up(_, _, _)
sift_up(data, start, pos) ==
    IF pos <= start THEN data
    ELSE LET parent == pos \div 2
         IN  IF Le(data[pos], data[parent]) THEN data
             ELSE sift_up(Swap(data, pos, parent), start, parent)

\* BinaryHeap::sift_down_to_bottom: move the hole down along the greater
\* child to a leaf, then sift the element back up
RECURSIVE HoleToBottom(_, _)
HoleToBottom(data, pos) ==
    LET left == 2 * pos
        right == 2 * pos + 1
    IN  IF right <= Len(data)
        THEN LET child == IF Le(data[left], data[right]) THEN right ELSE left
             IN  HoleToBottom(Swap(data, pos, child), child)
        ELSE IF left = Len(data)
        THEN [data |-> Swap(data, pos, left), pos |-> left]
        ELSE [data |-> data, pos |-> pos]

sift_down_to_bottom(data, start) ==
    LET low == HoleToBottom(data, start)
    IN  sift_up(low.data, start, low.pos)

\* BinaryHeap::push
push(data, item) == sift_up(Append(data, item), 1, Len(data) + 1)

\* BinaryHeap::pop: the last element takes the root's place and sinks
pop(data) ==
    IF Len(data) <= 1 THEN <<>>
    ELSE sift_down_to_bottom(
             [i \in 1..(Len(data) - 1) |-> IF i = 1 THEN data[Len(data)] ELSE data[i]],
             1)

\* BinaryHeap::peek
peek(data) == data[1]

\* if heap.len() < k { push } else if let Some(min_item) = heap.peek()
\*     { if score > min_item.score { pop; push } }
Offer(data, kk, item) ==
    IF Len(data) < kk THEN push(data, item)
    ELSE IF data # <<>> /\ FGt(item.score, peek(data).score)
         THEN push(pop(data), item)
         ELSE data

\* ------------------------------------------------------- result and sort
QueryResult(item) ==
    [id |-> item.id, score |-> item.score, metadata |-> item.metadata]

\* the comparator of results.sort_by: b.score.partial_cmp(&a.score)
\*                                        .unwrap_or(Equal) == Less
SortIsLess(a, b) == FLt(b.score, a.score)

\* slice::sort_by on a short slice: stable insertion sort
RECURSIVE InsertTail(_, _)
InsertTail(v, i) ==
    IF i > 1 /\ SortIsLess(v[i], v[i - 1])
    THEN InsertTail(Swap(v, i, i - 1), i - 1)
    ELSE v

RECURSIVE SortFrom(_, _)
SortFrom(v, i) ==
    IF i > Len(v) THEN v ELSE SortFrom(InsertTail(v, i), i + 1)

sort_by(v) == SortFrom(v, 2)

\* heap.into_iter().map(..).collect() and the sort
Finalize(data) == sort_by([i \in 1..Len(data) |-> QueryResult(data[i])])

\* ------------------------------------------------------------------ inputs
IdSample == {<<>>, <<Semicolon>>, <<ByteA>>}
\* (vector, metadata) arguments of add
AddSample ==
    { <<(<<One, 0>>), None>>,
      <<(<<One, One>>), Some(JsonDoc)>>,
      <<(<<0 - One, 0>>), Some(JsonNull)>>,
      <<(<<Huge, Huge>>), None>>,
      <<(<<NaN, 0>>), Some(JsonDoc)>>,
      <<(<<>>), None>> }
QuerySample == {<<One, One>>, <<One, 0>>}
ByteSample == {0, Colon, Semicolon, ByteC, ByteD, ByteE, ByteV, ByteMax}

\* query calls in flight: one caller, or two callers sharing the handle
Queries == {1, 2}
SeqQueries == {1}

\* ------------------------------------------------------------------- state
VARIABLES
    db,            \* the store: byte key -> encoded record
    nAdds,         \* add calls made through this handle
    pc,            \* per query: "idle", "scan", "next", "done"
    query_vector,  \* per query: the query_vector argument
    k,             \* per query: the k argument
    heap,          \* per query: the BinaryHeap's backing vector
    iter,          \* per query: the scan iterator (items of the scan, position)
    outcome,       \* per query: the Result returned by query
    storeErr,      \* per query: the store reported a failure to this query
    latest,        \* id -> (vector, metadata) of the last add that returned Ok
    probe          \* a byte key tested against the scan range

vars == <<db, nAdds, pc, query_vector, k, heap, iter, outcome, storeErr, latest, probe>>
queryVars == <<pc, query_vector, k, heap, iter, outcome, storeErr>>

NoIter == [items |-> <<>>, pos |-> 0]
NoOutcome == [ok |-> FALSE, err |-> "", results |-> <<>>]
Ok(results) == [ok |-> TRUE, err |-> "", results |-> results]
Err(e) == [ok |-> FALSE, err |-> e, results |-> <<>>]
NoProbe == [key |-> <<>>, fromAdd |-> FALSE, scanned |-> FALSE]

QueriesIdle ==
    /\ pc = [q \in Queries |-> "idle"]
    /\ query_vector = [q \in Queries |-> <<>>]
    /\ k = [q \in Queries |-> 0]
    /\ heap = [q \in Queries |-> <<>>]
    /\ iter = [q \in Queries |-> NoIter]
    /\ outcome = [q \in Queries |-> NoOutcome]
    /\ storeErr = [q \in Queries |-> FALSE]

\* VectorStore::open on a fresh path
Init ==
    /\ db = EmptyDb
    /\ nAdds = 0
    /\ QueriesIdle
    /\ latest = EmptyDb
    /\ probe = NoProbe

\* ------------------------------------------------------------------- add
\* the store after add(id, vector, metadata) returned Ok
AddTo(store, id, vector, metadata) ==
    Put(store, AddKey(id), to_vec(VectorRecord(id, vector, metadata)))

Add(id, vector, metadata) ==
    /\ nAdds < MaxAdds
    /\ nAdds' = nAdds + 1
    /\ db' = AddTo(db, id, vector, metadata)
    /\ latest' = Put(latest, id, <<vector, metadata>>)
    /\ UNCHANGED <<queryVars, probe>>

\* self.db.put(..).await? with the store reporting a failure
AddFails ==
    /\ nAdds < MaxAdds
    /\ nAdds' = nAdds + 1
    /\ UNCHANGED <<db, latest, queryVars, probe>>

\* ----------------------------------------------------------------- query
\* the call: an empty heap, then the first suspension point (scan)
StartQuery(q, v, kk) ==
    /\ pc[q] = "idle"
    /\ pc' = [pc EXCEPT ![q] = "scan"]
    /\ query_vector' = [query_vector EXCEPT ![q] = v]
    /\ k' = [k EXCEPT ![q] = kk]
    /\ heap' = [heap EXCEPT ![q] = <<>>]
    /\ UNCHANGED <<db, nAdds, iter, outcome, storeErr, latest, probe>>

\* self.db.scan("vec:".."vec;").await? succeeds
ScanOk(q) ==
    /\ pc[q] = "scan"
    /\ iter' = [iter EXCEPT ![q] = [items |-> ScanItems(db), pos |-> 0]]
    /\ pc' = [pc EXCEPT ![q] = "next"]
    /\ UNCHANGED <<db, nAdds, query_vector, k, heap, outcome, storeErr, latest, probe>>

\* self.db.scan(..).await? fails: the error is returned
ScanErr(q) ==
    /\ pc[q] = "scan"
    /\ storeErr' = [storeErr EXCEPT ![q] = TRUE]
    /\ outcome' = [outcome EXCEPT ![q] = Err("DbError")]
    /\ pc' = [pc EXCEPT ![q] = "done"]
    /\ UNCHANGED <<db, nAdds, query_vector, k, heap, iter, latest, probe>>

Current(q) == iter[q].items[iter[q].pos + 1]

\* as NextRecord, with one heap shared by all queries of the handle
NextRecord_SharedHeap(q) ==
    /\ pc[q] = "next"
    /\ iter[q].pos < Len(iter[q].items)
    /\ Decodable(Current(q).value)
    /\ LET record == from_slice(Current(q).value)
           score == cosine_similarity(query_vector[q], record.vector)
           scored_item == ScoredItem(score, record.id, record.metadata)
       IN  heap' = [heap EXCEPT ![1] = Offer(heap[1], k[q], scored_item)]
    /\ iter' = [iter EXCEPT ![q].pos = @ + 1]
    /\ UNCHANGED <<db, nAdds, pc, query_vector, k, outcome, storeErr, latest, probe>>

\* as NextRecord, with a scan that removes each record it yields
NextRecord_Consuming(q) ==
    /\ pc[q] = "next"
    /\ iter[q].pos < Len(iter[q].items)
    /\ Decodable(Current(q).value)
    /\ LET record == from_slice(Current(q).value)
           score == cosine_similarity(query_vector[q], record.vector)
           scored_item == ScoredItem(score, record.id, record.metadata)
       IN  heap' = [heap EXCEPT ![q] = Offer(heap[q], k[q], scored_item)]
    /\ iter' = [iter EXCEPT ![q].pos = @ + 1]
    /\ db' = [x \in (DOMAIN db) \ {Current(q).key} |-> db[x]]
    /\ UNCHANGED <<nAdds, pc, query_vector, k, outcome, storeErr, latest, probe>>

\* iter.next().await is Ok(Some(item)) and the record decodes: score it and
\* offer it to the heap
NextRecord(q) ==
    /\ pc[q] = "next"
    /\ iter[q].pos < Len(iter[q].items)
    /\ Decodable(Current(q).value)
    /\ LET record == from_slice(Current(q).value)
           score == cosine_similarity(query_vector[q], record.vector)
           scored_item == ScoredItem(score, record.id, record.metadata)
       IN  heap' = [heap EXCEPT ![q] = Offer(heap[q], k[q], scored_item)]
    /\ iter' = [iter EXCEPT ![q].pos = @ + 1]
    /\ UNCHANGED <<db, nAdds, pc, query_vector, k, outcome, storeErr, latest, probe>>

\* iter.next().await is Ok(Some(item)) and serde_json::from_slice(..)? fails
NextDecodeErr(q) ==
    /\ pc[q] = "next"
    /\ iter[q].pos < Len(iter[q].items)
    /\ ~Decodable(Current(q).value)
    /\ outcome' = [outcome EXCEPT ![q] = Err("SerializationError")]
    /\ heap' = [heap EXCEPT ![q] = <<>>]
    /\ pc' = [pc EXCEPT ![q] = "done"]
    /\ UNCHANGED <<db, nAdds, query_vector, k, iter, storeErr, latest, probe>>

\* iter.next().await is Ok(None): the loop ends, the heap is drained and
\* sorted
NextNone(q) ==
    /\ pc[q] = "next"
    /\ iter[q].pos = Len(iter[q].items)
    /\ outcome' = [outcome EXCEPT ![q] = Ok(Finalize(heap[q]))]
    /\ heap' = [heap EXCEPT ![q] = <<>>]
    /\ pc' = [pc EXCEPT ![q] = "done"]
    /\ UNCHANGED <<db, nAdds, query_vector, k, iter, storeErr, latest, probe>>

\* iter.next().await is Err(_): `while let Ok(Some(item))` does not match,
\* the loop ends, the heap is drained and sorted
NextErr(q) ==
    /\ pc[q] = "next"
    /\ storeErr' = [storeErr EXCEPT ![q] = TRUE]
    /\ outcome' = [outcome EXCEPT ![q] = Ok(Finalize(heap[q]))]
    /\ heap' = [heap EXCEPT ![q] = <<>>]
    /\ pc' = [pc EXCEPT ![q] = "done"]
    /\ UNCHANGED <<db, nAdds, query_vector, k, iter, latest, probe>>

ResetQuery(q) ==
    /\ pc' = [pc EXCEPT ![q] = "idle"]
    /\ query_vector' = [query_vector EXCEPT ![q] = <<>>]
    /\ k' = [k EXCEPT ![q] = 0]
    /\ heap' = [heap EXCEPT ![q] = <<>>]
    /\ iter' = [iter EXCEPT ![q] = NoIter]
    /\ outcome' = [outcome EXCEPT ![q] = NoOutcome]
    /\ storeErr' = [storeErr EXCEPT ![q] = FALSE]

\* the caller takes the Result
Return(q) ==
    /\ pc[q] = "done"
    /\ ResetQuery(q)
    /\ UNCHANGED <<db, nAdds, latest, probe>>

\* the caller drops the future at a suspension point
Abandon(q) ==
    /\ pc[q] \in {"scan", "next"}
    /\ ResetQuery(q)
    /\ UNCHANGED <<db, nAdds, latest, probe>>

QueryStep(q) ==
    \/ \E v \in QuerySample, kk \in 0..MaxK : StartQuery(q, v, kk)
    \/ ScanOk(q)
    \/ ScanErr(q)
    \/ NextRecord(q)
    \/ NextDecodeErr(q)
    \/ NextNone(q)
    \/ NextErr(q)
    \/ Return(q)
    \/ Abandon(q)

Next ==
    \/ \E id \in IdSample, arg \in AddSample : Add(id, arg[1], arg[2])
    \/ AddFails
    \/ \E q \in SeqQueries : QueryStep(q)

Spec == Init /\ [][Next]_vars

\* ------------------------------------ two queries sharing one store handle
\* (vector, metadata) arguments of the adds that filled the store
ConcAddSample ==
    { <<(<<One, 0>>), None>>,
      <<(<<One, One>>), Some(JsonDoc)>>,
      <<(<<NaN, 0>>), Some(JsonDoc)>> }

RECURSIVE StoreOf(_, _)
StoreOf(f, ids) ==
    IF ids = {} THEN EmptyDb
    ELSE LET id == CHOOSE x \in ids : TRUE
         IN  AddTo(StoreOf(f, ids \ {id}), id, f[id][1], f[id][2])

\* VectorStore::open on a path that holds the records of earlier adds
InitConc ==
    /\ \E f \in [IdSample -> ConcAddSample] :
           /\ db = StoreOf(f, IdSample)
           /\ latest = f
    /\ nAdds = 0
    /\ QueriesIdle
    /\ probe = NoProbe

NextConc == \E q \in Queries : QueryStep(q)

SpecConc == InitConc /\ [][NextConc]_vars

\* ------------------------------------------- keys against the scan range
\* a key of the store, grown byte by byte, tested against the scan range
ProbeRawByte(b) ==
    /\ ~probe.fromAdd
    /\ Len(probe.key) < MaxKeyLen
    /\ probe' = [key |-> Append(probe.key, b),
                 fromAdd |-> FALSE,
                 scanned |-> InScanRange(Append(probe.key, b))]
    /\ UNCHANGED <<db, nAdds, latest, queryVars>>

\* the key add writes for an id, tested against the scan range
ProbeAddKey(id) ==
    /\ probe = NoProbe
    /\ probe' = [key |-> AddKey(id), fromAdd |-> TRUE,
                 scanned |-> InScanRange(AddKey(id))]
    /\ UNCHANGED <<db, nAdds, latest, queryVars>>

IdStrings == UNION {[1..n -> ByteSample] : n \in 0..MaxIdLen}

NextRange ==
    \/ \E b \in ByteSample : ProbeRawByte(b)
    \/ \E id \in IdStrings : ProbeAddKey(id)

SpecRange == Init /\ [][NextRange]_vars

\* --------------------------------------- one query over a five-record store
WideIdSample == {<<>>, <<Semicolon>>, <<ByteA>>, <<ByteC>>, <<ByteD>>}
\* (vector, metadata) arguments of the adds that filled the store
WideAddSample ==
    { <<(<<One, 0>>), None>>,
      <<(<<0 - One, 0>>), Some(JsonDoc)>>,
      <<(<<Huge, Huge>>), None>>,
      <<(<<0, 0>>), None>>,
      <<(<<NaN, 0>>), None>> }
\* query vectors: a regular one, an all-zero one, one of another length
WideQuerySample == {<<One, One>>, <<0, 0>>, <<One>>}

\* VectorStore::open on a path that holds the records of earlier adds
InitWide ==
    /\ \E f \in [WideIdSample -> WideAddSample] :
           /\ db = StoreOf(f, WideIdSample)
           /\ latest = f
    /\ nAdds = 0
    /\ QueriesIdle
    /\ probe = NoProbe

NextWide ==
    \/ \E v \in WideQuerySample, kk \in 0..MaxWideK : StartQuery(1, v, kk)
    \/ ScanOk(1)
    \/ ScanErr(1)
    \/ NextRecord(1)
    \/ NextDecodeErr(1)
    \/ NextNone(1)
    \/ NextErr(1)
    \/ Return(1)
    \/ Abandon(1)

SpecWide == InitWide /\ [][NextWide]_vars

\* ------------------------------------------------- derived views of a query
Min(a, b) == IF a < b THEN a ELSE b
Done(q) == pc[q] = "done"
Succeeded(q) == pc[q] = "done" /\ outcome[q].ok
Results(q) == outcome[q].results
Items(q) == iter[q].items
ResultIds(q) == {Results(q)[j].id : j \in 1..Len(Results(q))}
\* the score the query gives the i-th record of its scan
ScoreOf(q, i) ==
    cosine_similarity(query_vector[q], from_slice(Items(q)[i].value).vector)
HeldIds(q) == {heap[q][j].id : j \in 1..Len(heap[q])}

\* C1: every failure the store reports to a query (from scan, or from the
\* iterator's next after some records were visited) makes query return an
\* error, never a successful result list.
C1_StoreFailureIsError ==
    \A q \in Queries : (Done(q) /\ storeErr[q]) => ~outcome[q].ok

\* C2: the ids returned by a successful query are ids of stored records, and
\* no stored record left out of the result has a score strictly greater
\* than the score of a returned record.
C2_TopK ==
    \A q \in Queries : Succeeded(q) =>
        /\ \A j \in 1..Len(Results(q)) :
               \E i \in 1..Len(Items(q)) : Items(q)[i].value.id = Results(q)[j].id
        /\ \A i \in 1..Len(Items(q)) :
               (Decodable(Items(q)[i].value) /\ Items(q)[i].value.id \notin ResultIds(q))
               => \A j \in 1..Len(Results(q)) :
                      ~FGt(ScoreOf(q, i), Results(q)[j].score)

\* C3: a successful query(v, k) returns exactly min(k, number of stored
\* records) results; k = 0 returns the empty list.
C3_Length ==
    \A q \in Queries : Succeeded(q) =>
        Len(Results(q)) = Min(k[q], Len(Items(q)))

\* C4: in every returned result list the scores are in descending order:
\* results[i].score >= results[i+1].score for all adjacent positions.
C4_Descending ==
    \A q \in Queries : Succeeded(q) =>
        \A j \in 1..(Len(Results(q)) - 1) :
            FGe(Results(q)[j].score, Results(q)[j + 1].score)

\* C5: after any sequence of adds, a query over the current store returns
\* each id at most once, scored against the vector of the most recent add
\* of that id and carrying the metadata of that add.
C5_LatestAddWins ==
    \A q \in Queries : (Succeeded(q) /\ Items(q) = ScanItems(db)) =>
        /\ \A i, j \in 1..Len(Results(q)) :
               i # j => Results(q)[i].id # Results(q)[j].id
        /\ \A j \in 1..Len(Results(q)) :
               LET r == Results(q)[j]
               IN  /\ r.id \in DOMAIN latest
                   /\ r.score = cosine_similarity(query_vector[q], latest[r.id][1])
                   /\ r.metadata = latest[r.id][2]

\* C6: if a record of the scanned namespace cannot be decoded, the query
\* fails for every k (with the decoding error unless the store itself
\* failed) and returns no result list.
C6_MalformedFailsQuery ==
    \A q \in Queries :
        (Done(q) /\ \E i \in 1..Len(Items(q)) : ~Decodable(Items(q)[i].value)) =>
            /\ ~outcome[q].ok
            /\ ~storeErr[q] => outcome[q].err = "SerializationError"

\* C10: after each visited record the heap holds exactly min(k, visited)
\* items, and no visited record outside the heap has a score strictly
\* greater than the score of a held item.
C10_HeapHoldsTopK ==
    \A q \in Queries : pc[q] = "next" =>
        /\ Len(heap[q]) = Min(k[q], iter[q].pos)
        /\ \A i \in 1..iter[q].pos :
               Items(q)[i].value.id \notin HeldIds(q)
               => \A j \in 1..Len(heap[q]) : ~FGt(ScoreOf(q, i), heap[q][j].score)

\* C7: the scanned range ["vec:", "vec;") holds exactly the namespace: the
\* key add writes for any id lies inside the range, and every byte key
\* inside the range starts with "vec:".
C7_RangeIsNamespace ==
    /\ probe.fromAdd => probe.scanned
    /\ probe.scanned => HasPrefix(probe.key, VecPrefix)

\* the key of an id made of the largest byte is inside the range
C7_Witness ==
    /\ probe.fromAdd
    /\ probe.key = AddKey(<<ByteMax, ByteMax>>)
    /\ probe.scanned

\* C8: query is read-only: every step of a query (start, scan, next, a
\* failure, the return, an abandonment) leaves the keys and values of the
\* store as they were.
C8_QueryReadOnly == [][queryVars' # queryVars => db' = db]_vars

\* a query has run to its end over a store of two or more records, and the
\* store still holds exactly the records it scanned
C8_Witness ==
    /\ Succeeded(1)
    /\ Len(Items(1)) >= 2
    /\ Len(Results(1)) >= 2
    /\ Items(1) = ScanItems(db)

\* the heap of a query run alone after the first n records of its scan
RECURSIVE HeapAfter(_, _, _, _)
HeapAfter(items, n, v, kk) ==
    IF n = 0 THEN <<>>
    ELSE LET record == from_slice(items[n].value)
         IN  Offer(HeapAfter(items, n - 1, v, kk), kk,
                   ScoredItem(cosine_similarity(v, record.vector),
                              record.id, record.metadata))

FirstMalformed(items) ==
    IF \E i \in 1..Len(items) : ~Decodable(items[i].value)
    THEN CHOOSE i \in 1..Len(items) :
             /\ ~Decodable(items[i].value)
             /\ \A j \in 1..(i - 1) : Decodable(items[j].value)
    ELSE Len(items) + 1

\* every Result query(v, kk) can return when it runs alone on the store
SoloOutcomes(store, v, kk) ==
    LET items == ScanItems(store)
        bad == FirstMalformed(items)
    IN  {Err("DbError")}
        \cup {Ok(Finalize(HeapAfter(items, n, v, kk))) : n \in 0..(bad - 1)}
        \cup (IF bad <= Len(items) THEN {Err("SerializationError")} ELSE {})

\* C9: queries interleaved at their suspension points on one store handle,
\* with no add in flight: each query's heap is the heap it has when run
\* alone up to the same scan position, and each returns a Result it can
\* return when run alone on the same store content.
C9_QueriesIndependent ==
    \A q \in Queries :
        /\ pc[q] = "next" =>
               /\ Items(q) = ScanItems(db)
               /\ heap[q] = HeapAfter(Items(q), iter[q].pos, query_vector[q], k[q])
        /\ Done(q) => outcome[q] \in SoloOutcomes(db, query_vector[q], k[q])

\* both queries are in the middle of their scans, with different heaps
C9_Witness ==
    /\ pc[1] = "next" /\ pc[2] = "next"
    /\ iter[1].pos >= 1 /\ iter[2].pos >= 2
    /\ heap[1] # <<>> /\ heap[2] # <<>>
    /\ heap[1] # heap[2]

\* the held items no other held item is strictly below
Lowest(data) ==
    {i \in 1..Len(data) : \A j \in 1..Len(data) : ~FLt(data[j].score, data[i].score)}
HeapIds(data) == {data[j].id : j \in 1..Len(data)}

\* C11: when the heap already holds k items, a visited record changes the
\* heap only if its score is strictly greater than a lowest held score, the
\* item removed is then one with a lowest held score, and a record whose
\* score equals a lowest held score leaves the heap unchanged.
C11_EvictsLowestOnlyIfGreater ==
    [][\A q \in Queries :
          (/\ pc[q] = "next" /\ pc'[q] = "next"
           /\ iter'[q].pos = iter[q].pos + 1
           /\ Len(heap[q]) = k[q])
          => LET s == ScoreOf(q, iter[q].pos + 1)
                 new == Items(q)[iter[q].pos + 1].value.id
             IN  /\ heap'[q] # heap[q] =>
                        \E i \in Lowest(heap[q]) :
                            /\ FGt(s, heap[q][i].score)
                            /\ HeapIds(heap'[q]) =
                                   (HeapIds(heap[q]) \ {heap[q][i].id}) \cup {new}
                 /\ (\E i \in Lowest(heap[q]) : s = heap[q][i].score)
                        => heap'[q] = heap[q]]_vars

AllZero(v) == \A i \in 1..Len(v) : v[i] = 0
\* the inputs the claim calls degenerate
Degenerate(a, b) ==
    Len(a) # Len(b) \/ a = <<>> \/ b = <<>> \/ AllZero(a) \/ AllZero(b)

\* C12: a stored record that is degenerate against the query vector
\* (different length, empty, or all-zero on either side) scores exactly 0;
\* it is returned whenever fewer than k other records score 0 or more, and
\* in the result it stands before every record with a negative score.
C12_DegenerateScoresZero ==
    \A q \in Queries : Succeeded(q) =>
        \A i \in 1..Len(Items(q)) :
            (/\ Decodable(Items(q)[i].value)
             /\ Degenerate(query_vector[q], from_slice(Items(q)[i].value).vector))
            => /\ ScoreOf(q, i) = 0
               /\ Cardinality({j \in 1..Len(Items(q)) :
                                   /\ j # i
                                   /\ Decodable(Items(q)[j].value)
                                   /\ ~FLt(ScoreOf(q, j), 0)}) < k[q]
                      => Items(q)[i].value.id \in ResultIds(q)
               /\ \A p, n \in 1..Len(Results(q)) :
                      (/\ Results(q)[p].id = Items(q)[i].value.id
                       /\ FLt(Results(q)[n].score, 0))
                      => p < n

\* the id a key of the namespace stands for: the bytes after "vec:"
IdOfKey(key) == SubSeq(key, Len(VecPrefix) + 1, Len(key))

\* C13: after any sequence of adds, every value stored under "vec:" + x
\* decodes to a record whose id field is x; so the ids of a query result
\* are pairwise distinct and each is the id of a stored record.
C13_StoredIdMatchesKey ==
    /\ \A key \in DOMAIN db :
           /\ HasPrefix(key, VecPrefix)
           /\ Decodable(db[key])
           /\ from_slice(db[key]).id = IdOfKey(key)
    /\ \A q \in Queries : Succeeded(q) =>
           /\ \A i, j \in 1..Len(Results(q)) :
                  i # j => Results(q)[i].id # Results(q)[j].id
           /\ \A j \in 1..Len(Results(q)) :
                  AddKey(Results(q)[j].id) \in DOMAIN db

Scores(results) == [i \in 1..Len(results) |-> results[i].score]

\* C14: the score sequence of a successful query(v, k) is determined by the
\* store content, v and k alone: it is the score sequence of the full scan
\* of that content, whatever adds produced the content and in what order.
C14_ScoresDeterminedByContent ==
    \A q \in Queries : (Succeeded(q) /\ Items(q) = ScanItems(db)) =>
        Scores(Results(q)) =
            Scores(Finalize(HeapAfter(ScanItems(db), Len(ScanItems(db)),
                                      query_vector[q], k[q])))

====
